---- MODULE Spec2Model ----
(***************************************************************************)
(* Payment gateway router: the Health Tracker (GatewayHealthService), the  *)
(* Gateway Router (GatewayService) and the Transaction Ledger              *)
(* (TransactionsService), modelled as one state machine.  Every handler of *)
(* the three services is one action; handlers are synchronous, so each is  *)
(* atomic.  Time is the wall clock in minutes.                             *)
(***************************************************************************)
EXTENDS Integers, Sequences, FiniteSets, TLC

(* ------------------------------ bounds -------------------------------- *)

\* number of transaction ids crypto.randomUUID() hands out in a run
MaxTxns == 2
\* direct recordTransaction calls are accepted while fewer records are held
MaxRecords == 5
\* the longest history one gateway is given when the threshold is examined
MaxSample == 10
\* the clock stops advancing here
MaxTime == 30
\* the clock stops advancing here when old records are pruned
MaxPruneTime == 45
\* Math.random() is drawn from { k / RandomResolution : 0 <= k < RandomResolution }
RandomResolution == 6

(* ------------------------- configuration ------------------------------ *)

GATEWAY_CONFIG ==
    << [name |-> "razorpay", weight |-> 50, enabled |-> TRUE],
       [name |-> "payu",     weight |-> 30, enabled |-> TRUE],
       [name |-> "cashfree", weight |-> 20, enabled |-> TRUE] >>

HEALTH_CHECK_WINDOW_MINUTES == 15
UNHEALTHY_COOLDOWN_MINUTES == 30
\* SUCCESS_RATE_THRESHOLD = 0.9, kept as the fraction ThresholdNum / ThresholdDen
ThresholdNum == 9
ThresholdDen == 10
MIN_REQUESTS_FOR_HEALTH_CHECK == 5

GatewayNames == { GATEWAY_CONFIG[i].name : i \in DOMAIN GATEWAY_CONFIG }

(* ------------------------------ inputs -------------------------------- *)

\* order ids the callers use
OrderIds == {"ORD1", "ORD2"}
\* gateway names the callers supply: the configured ones and a foreign one
GatewayInputs == GatewayNames \cup {"stripe"}
\* the optional reason of a callback: absent, empty, or a sentence
Reasons == {"<undefined>", "", "Customer Cancelled"}
\* minutes passed to disableGateway (absent: UNHEALTHY_COOLDOWN_MINUTES)
DisableMinutes == {15, 30}
\* a manual disable for longer than the cooldown
LongDisableMinutes == {60}
\* the clock is read at multiples of a quarter of an hour
ClockSteps == {15}
\* the closed loop is observed once per cooldown
LoopClockSteps == {30}
\* the order a client retries
LoopOrders == {"ORD1"}
\* the gateways whose outcomes are reported directly to the Health Tracker
RecordInputs == {"razorpay"}

PENDING == "pending"
SUCCESS == "success"
FAILURE == "failure"

(* ------------------------------- state -------------------------------- *)

VARIABLES
    transactions,        \* TransactionsService.transactions: id -> Transaction
    orderToTransaction,  \* TransactionsService.orderToTransaction: order id -> id
    gatewayTransactions, \* GatewayHealthService.gatewayTransactions: name -> records
    disabledGateways,    \* GatewayHealthService.disabledGateways: name -> Date
    now,                 \* the wall clock (new Date(), Date.now())
    nextId               \* ids handed out so far by crypto.randomUUID()

vars == << transactions, orderToTransaction, gatewayTransactions,
           disabledGateways, now, nextId >>

ledgerVars == << transactions, orderToTransaction, nextId >>
healthVars == << gatewayTransactions, disabledGateways >>

(* ------------------------------ Map helpers --------------------------- *)

EmptyMap == [k \in {} |-> 0]

MapSet(m, k, v) == [x \in (DOMAIN m) \cup {k} |-> IF x = k THEN v ELSE m[x]]

MapDelete(m, k) == [x \in (DOMAIN m) \ {k} |-> m[x]]

\* Map.get(k) || []
GetOrEmpty(m, k) == IF k \in DOMAIN m THEN m[k] ELSE << >>

(* ------------------------ GatewayHealthService ------------------------ *)

\* mutant: a record at the start of the window is left out
WindowTransactions_Strict(h, gateway, t) ==
    LET windowStart == t - HEALTH_CHECK_WINDOW_MINUTES
    IN  SelectSeq(GetOrEmpty(h, gateway), LAMBDA r : r.timestamp > windowStart)

\* getGatewayStats: the records of the gateway inside the trailing window
WindowTransactions(h, gateway, t) ==
    LET windowStart == t - HEALTH_CHECK_WINDOW_MINUTES
    IN  SelectSeq(GetOrEmpty(h, gateway), LAMBDA r : r.timestamp >= windowStart)

getGatewayStats(h, gateway, t) ==
    LET windowTransactions == WindowTransactions(h, gateway, t)
    IN  [totalRequests |-> Len(windowTransactions),
         successCount  |-> Len(SelectSeq(windowTransactions, LAMBDA r : r.success)),
         failureCount  |-> Len(SelectSeq(windowTransactions, LAMBDA r : ~r.success))]

\* mutant: a rate equal to the threshold trips as well
BelowThreshold_Inclusive(stats) ==
    stats.successCount * ThresholdDen <= ThresholdNum * stats.totalRequests

\* successCount / totalRequests < SUCCESS_RATE_THRESHOLD.  The quotient of two
\* small integers differs from 0.9 by far more than a rounding error unless it
\* is 9/10, which rounds to the double 0.9 itself, so the comparison of doubles
\* agrees with the comparison of fractions.
BelowThreshold(stats) ==
    stats.successCount * ThresholdDen < ThresholdNum * stats.totalRequests

\* mutant: the breaker never trips
checkAndUpdateHealth_NeverTrips(h, d, gateway, t) == d

\* mutant: the evaluation needs more than the minimum sample
checkAndUpdateHealth_OffByOne(h, d, gateway, t) ==
    LET stats == getGatewayStats(h, gateway, t)
    IN  IF stats.totalRequests <= MIN_REQUESTS_FOR_HEALTH_CHECK THEN d
        ELSE IF BelowThreshold(stats)
             THEN MapSet(d, gateway, t + UNHEALTHY_COOLDOWN_MINUTES)
             ELSE d

\* mutant: the minimum sample is not required
checkAndUpdateHealth_NoMinSample(h, d, gateway, t) ==
    LET stats == getGatewayStats(h, gateway, t)
    IN  IF BelowThreshold(stats)
        THEN MapSet(d, gateway, t + UNHEALTHY_COOLDOWN_MINUTES)
        ELSE d

\* checkAndUpdateHealth: the disabledGateways map it leaves
checkAndUpdateHealth(h, d, gateway, t) ==
    LET stats == getGatewayStats(h, gateway, t)
    IN  IF stats.totalRequests < MIN_REQUESTS_FOR_HEALTH_CHECK THEN d
        ELSE IF BelowThreshold(stats)
             THEN MapSet(d, gateway, t + UNHEALTHY_COOLDOWN_MINUTES)
             ELSE d

\* mutant: only failures are recorded
recordTransaction_FailuresOnly(h, d, gateway, success, t) ==
    LET h2 == MapSet(h, gateway,
                     Append(GetOrEmpty(h, gateway),
                            [timestamp |-> t, success |-> success]))
    IN  IF success THEN [h |-> h, d |-> d]
        ELSE [h |-> h2, d |-> d]

\* mutant: the evaluation runs after every record
recordTransaction_AlwaysEvaluates(h, d, gateway, success, t) ==
    LET h2 == MapSet(h, gateway,
                     Append(GetOrEmpty(h, gateway),
                            [timestamp |-> t, success |-> success]))
    IN  [h |-> h2, d |-> checkAndUpdateHealth(h2, d, gateway, t)]

\* mutant: the new record replaces the history (a lost update)
recordTransaction_Overwrites(h, d, gateway, success, t) ==
    LET h2 == MapSet(h, gateway, << [timestamp |-> t, success |-> success] >>)
    IN  [h |-> h2,
         d |-> IF ~success THEN checkAndUpdateHealth(h2, d, gateway, t) ELSE d]

\* recordTransaction: the two maps it leaves
recordTransaction(h, d, gateway, success, t) ==
    LET h2 == MapSet(h, gateway,
                     Append(GetOrEmpty(h, gateway),
                            [timestamp |-> t, success |-> success]))
    IN  [h |-> h2,
         d |-> IF ~success THEN checkAndUpdateHealth(h2, d, gateway, t) ELSE d]

\* mutant: a stored disable-until never expires
isGatewayHealthy_NoExpiry(d, gateway, t) == gateway \notin DOMAIN d

\* isGatewayHealthy: what it returns
isGatewayHealthy(d, gateway, t) ==
    IF gateway \in DOMAIN d
    THEN (IF t > d[gateway] THEN TRUE ELSE FALSE)
    ELSE TRUE

\* isGatewayHealthy: the disabledGateways map it leaves (an elapsed entry is deleted)
AfterIsGatewayHealthy(d, gateway, t) ==
    IF gateway \in DOMAIN d /\ t > d[gateway] THEN MapDelete(d, gateway) ELSE d

\* getGatewayHealth: the record it returns; successRate is the quotient
\* successCount / totalRequests kept as a fraction, 1 being 1/1, and an
\* absent disabledUntil is null
getGatewayHealth(h, d, gateway, t) ==
    LET stats == getGatewayStats(h, gateway, t)
    IN  [name |-> gateway,
         isHealthy |-> isGatewayHealthy(d, gateway, t),
         successRate |-> IF stats.totalRequests > 0
                         THEN [num |-> stats.successCount, den |-> stats.totalRequests]
                         ELSE [num |-> 1, den |-> 1],
         totalRequests |-> stats.totalRequests,
         successCount |-> stats.successCount,
         failureCount |-> stats.failureCount,
         disabledUntil |-> IF gateway \in DOMAIN d THEN << d[gateway] >> ELSE << >>]

\* the configured gateways isGatewayHealthy is called for by getHealthyGateways
\* (config.enabled && ... short-circuits for a statically disabled gateway)
EnabledNames ==
    { GATEWAY_CONFIG[i].name : i \in { j \in DOMAIN GATEWAY_CONFIG : GATEWAY_CONFIG[j].enabled } }

\* mutant: the breaker is not consulted
getHealthyGateways_EnabledOnly(d, t) ==
    LET idx == SelectSeq([i \in DOMAIN GATEWAY_CONFIG |-> i],
                         LAMBDA i : GATEWAY_CONFIG[i].enabled)
    IN  [k \in DOMAIN idx |-> GATEWAY_CONFIG[idx[k]].name]

\* getHealthyGateways: the names it returns, in configured order
getHealthyGateways(d, t) ==
    LET idx == SelectSeq([i \in DOMAIN GATEWAY_CONFIG |-> i],
                         LAMBDA i : GATEWAY_CONFIG[i].enabled
                                    /\ isGatewayHealthy(d, GATEWAY_CONFIG[i].name, t))
    IN  [k \in DOMAIN idx |-> GATEWAY_CONFIG[idx[k]].name]

\* getHealthyGateways: the disabledGateways map it leaves
AfterGetHealthyGateways(d, t) ==
    LET gone == { g \in EnabledNames \cap DOMAIN d : t > d[g] }
    IN  [g \in (DOMAIN d) \ gone |-> d[g]]

\* mutant: the cutoff is the start of the health window, itself pruned
cleanupOldRecords_WindowStrict(h, t) ==
    LET cutoffTime == t - HEALTH_CHECK_WINDOW_MINUTES
    IN  [g \in DOMAIN h |-> SelectSeq(h[g], LAMBDA r : r.timestamp > cutoffTime)]

\* cleanupOldRecords: the gatewayTransactions map it leaves
cleanupOldRecords(h, t) ==
    LET cutoffTime == t - HEALTH_CHECK_WINDOW_MINUTES * 2
    IN  [g \in DOMAIN h |-> SelectSeq(h[g], LAMBDA r : r.timestamp >= cutoffTime)]

\* mutant: the minutes are ignored and the cooldown is used
disableGateway_IgnoresMinutes(d, gateway, minutes, t) ==
    MapSet(d, gateway, t + UNHEALTHY_COOLDOWN_MINUTES)

\* disableGateway: the disabledGateways map it leaves
disableGateway(d, gateway, minutes, t) == MapSet(d, gateway, t + minutes)

\* enableGateway: the disabledGateways map it leaves
enableGateway(d, gateway) == MapDelete(d, gateway)

\* mutant: the histories are kept
resetAllStats_KeepsHistories(h) == h

\* resetAllStats: the gatewayTransactions map it leaves (keys outside the
\* configuration keep their records: only configured names are set to [])
resetAllStats(h) ==
    [g \in (DOMAIN h) \cup GatewayNames |-> IF g \in GatewayNames THEN << >> ELSE h[g]]

(* ---------------------------- GatewayService -------------------------- *)

\* getHealthyGatewayConfigs: GATEWAY_CONFIG filtered by the healthy names
getHealthyGatewayConfigs(d, t) ==
    LET healthyNames == getHealthyGateways(d, t)
        names == { healthyNames[i] : i \in DOMAIN healthyNames }
    IN  SelectSeq(GATEWAY_CONFIG, LAMBDA c : c.name \in names)

RECURSIVE SumWeights(_)
SumWeights(configs) ==
    IF configs = << >> THEN 0 ELSE Head(configs).weight + SumWeights(Tail(configs))

\* the weight accumulated after the first i gateways
CumulativeWeight(configs, i) == SumWeights(SubSeq(configs, 1, i))

\* mutant: the comparison is strict
PickGateway_Strict(healthyGateways, k) ==
    LET totalWeight == SumWeights(healthyGateways)
        hits == { i \in DOMAIN healthyGateways :
                    k * totalWeight < CumulativeWeight(healthyGateways, i) * RandomResolution }
    IN  IF hits # {}
        THEN healthyGateways[CHOOSE i \in hits : \A j \in hits : i <= j]
        ELSE healthyGateways[1]

\* the loop of selectGateway for random = (k / RandomResolution) * totalWeight:
\* the first gateway with random <= cumulativeWeight, else healthyGateways[0]
PickGateway(healthyGateways, k) ==
    LET totalWeight == SumWeights(healthyGateways)
        hits == { i \in DOMAIN healthyGateways :
                    k * totalWeight <= CumulativeWeight(healthyGateways, i) * RandomResolution }
    IN  IF hits # {}
        THEN healthyGateways[CHOOSE i \in hits : \A j \in hits : i <= j]
        ELSE healthyGateways[1]

\* (x * 100).toFixed(1) of x = num / den, in tenths of a percent, rounded half up
PercentTenths(num, den) == (num * 2000 + den) \div (2 * den)

\* mutant: the share is taken of the weights of every configured gateway
buildSelectionReason_ConfiguredShare(selected, healthyGateways, totalWeight) ==
    LET healthy == { healthyGateways[i].name : i \in DOMAIN healthyGateways }
        unhealthyGateways == SelectSeq(GATEWAY_CONFIG, LAMBDA g : g.name \notin healthy)
    IN  [selected |-> selected.name,
         probability |-> PercentTenths(selected.weight, SumWeights(GATEWAY_CONFIG)),
         excluded |-> [i \in DOMAIN unhealthyGateways |-> unhealthyGateways[i].name]]

\* buildSelectionReason: the parts of the sentence it builds
buildSelectionReason(selected, healthyGateways, totalWeight) ==
    LET healthy == { healthyGateways[i].name : i \in DOMAIN healthyGateways }
        unhealthyGateways == SelectSeq(GATEWAY_CONFIG, LAMBDA g : g.name \notin healthy)
    IN  [selected |-> selected.name,
         probability |-> PercentTenths(selected.weight, totalWeight),
         excluded |-> [i \in DOMAIN unhealthyGateways |-> unhealthyGateways[i].name]]

\* mutant: the empty healthy list is not detected
SelectCheck_NeverRaises(d, t) == "ok"

\* selectGateway, lines 15-20: the error it raises, or "ok"
SelectCheck(d, t) ==
    IF Len(getHealthyGatewayConfigs(d, t)) = 0 THEN "NoHealthyGateway" ELSE "ok"

\* selectGateway for the draw k, given a non-empty healthy list
selectGateway(d, t, k) ==
    LET healthyGateways == getHealthyGatewayConfigs(d, t)
        totalWeight == SumWeights(healthyGateways)
        selectedGateway == PickGateway(healthyGateways, k)
    IN  [gateway |-> selectedGateway.name,
         reason |-> buildSelectionReason(selectedGateway, healthyGateways, totalWeight)]

isValidGateway(gatewayName) == gatewayName \in GatewayNames

(* -------------------------- TransactionsService ----------------------- *)

\* an absent optional field (undefined)
Undefined == "<undefined>"

\* a string used as a condition: undefined and "" are falsy
Truthy(x) == x # Undefined /\ x # ""

\* mutant: the duplicate check is skipped
HasPendingTransaction_Skipped(txns, index, order_id) == FALSE

\* mutant: any indexed transaction blocks the order, whatever its status
HasPendingTransaction_AnyStatus(txns, index, order_id) ==
    /\ order_id \in DOMAIN index
    /\ index[order_id] \in DOMAIN txns

\* initiateTransaction, lines 37-50: the order has a PENDING transaction
HasPendingTransaction(txns, index, order_id) ==
    /\ order_id \in DOMAIN index
    /\ index[order_id] \in DOMAIN txns
    /\ txns[index[order_id]].status = PENDING

\* a string of decimal digits, as the sequence of its characters
DigitChar == << "0", "1", "2", "3", "4", "5", "6", "7", "8", "9" >>

Card(digits) == [i \in DOMAIN digits |-> DigitChar[digits[i] + 1]]

\* String.prototype.slice(-n): the last n characters, the whole string if shorter
SliceLast(str, n) ==
    IF Len(str) <= n THEN str ELSE SubSeq(str, Len(str) - n + 1, Len(str))

\* the literal '****'
MaskPrefix == << "*", "*", "*", "*" >>

\* mutant: the card number is kept
sanitizePaymentInstrument_NoMask(instrument) ==
    [f \in (DOMAIN instrument) \ {"cvv"} |-> instrument[f]]

\* sanitizePaymentInstrument: a copy with a non-empty card_number replaced by
\* '****' and its last four characters, and with the cvv key deleted
sanitizePaymentInstrument(instrument) ==
    LET sanitized ==
            [f \in DOMAIN instrument |->
                IF f = "card_number" /\ instrument[f] # << >>
                THEN MaskPrefix \o SliceLast(instrument[f], 4)
                ELSE instrument[f]]
    IN  [f \in (DOMAIN sanitized) \ {"cvv"} |-> sanitized[f]]

\* payment instruments the validation of PaymentInstrumentDto admits: a card
\* number is 13 to 19 digits, a cvv 3 or 4 digits, every field but type optional
PaymentInstruments ==
    { [type |-> "card",
       card_number |-> Card(<< 5, 5, 5, 5, 5, 5, 5, 5, 5, 5, 5, 5, 4, 4, 4, 4 >>),
       expiry |-> "12/25",
       cvv |-> "123"],
      [type |-> "card",
       card_number |-> Card(<< 4, 2, 2, 2, 2, 2, 2, 2, 2, 1, 2, 3, 4 >>)],
      [type |-> "card",
       card_number |-> Card(<< 6, 3, 0, 4, 0, 0, 0, 0, 0, 0, 0, 0, 0, 0, 0, 9, 8, 7, 6 >>),
       cvv |-> "4321"],
      [type |-> "upi", upi_id |-> "name@upi"],
      [type |-> "wallet", wallet_provider |-> "paytm", cvv |-> "999"] }

\* the requests of the intake, one for each instrument: the amount is 1 or
\* 499 and the optional currency is absent for a card
IntakeDtos(order_id) ==
    { [order_id |-> order_id,
       amount |-> IF "cvv" \in DOMAIN p THEN 499 ELSE 1,
       currency |-> IF p.type = "card" THEN Undefined ELSE "USD",
       payment_instrument |-> p] : p \in PaymentInstruments }

\* the request the unit tests make for an order
validTransactionDto(order_id) ==
    [order_id |-> order_id,
     amount |-> 499,
     currency |-> Undefined,
     payment_instrument |->
         [type |-> "card",
          card_number |-> Card(<< 4, 1, 1, 1, 1, 1, 1, 1, 1, 1, 1, 1, 1, 1, 1, 1 >>),
          expiry |-> "12/25"]]

\* initiateTransaction, lines 56-67: the record it stores
NewTransaction(id, dto, selection, t) ==
    [id |-> id,
     order_id |-> dto.order_id,
     amount |-> dto.amount,
     currency |-> IF Truthy(dto.currency) THEN dto.currency ELSE "INR",
     status |-> PENDING,
     gateway |-> selection.gateway,
     gateway_selection_reason |-> selection.reason,
     payment_instrument |-> sanitizePaymentInstrument(dto.payment_instrument),
     failure_reason |-> Undefined,
     created_at |-> t,
     updated_at |-> t]

\* initiateTransaction: the error it raises, or "ok"
InitiateCheck(txns, index, d, order_id, t) ==
    IF HasPendingTransaction(txns, index, order_id) THEN "DuplicatePendingOrder"
    ELSE SelectCheck(d, t)

\* mutant: the status is not looked at
CallbackCheck_NoStatus(txns, index, order_id, gateway) ==
    IF order_id \notin DOMAIN index THEN "TransactionNotFound"
    ELSE IF index[order_id] \notin DOMAIN txns THEN "TransactionNotFound"
    ELSE IF txns[index[order_id]].gateway # gateway THEN "GatewayMismatch"
    ELSE "ok"

\* mutant: the reported gateway is not compared with the assignment
CallbackCheck_NoGateway(txns, index, order_id, gateway) ==
    IF order_id \notin DOMAIN index THEN "TransactionNotFound"
    ELSE IF index[order_id] \notin DOMAIN txns THEN "TransactionNotFound"
    ELSE IF txns[index[order_id]].status # PENDING THEN "AlreadyProcessed"
    ELSE "ok"

\* mutant: a callback for a gateway with a disable-until is refused
CallbackCheck_HealthyOnly(txns, index, order_id, gateway) ==
    IF order_id \notin DOMAIN index THEN "TransactionNotFound"
    ELSE IF index[order_id] \notin DOMAIN txns THEN "TransactionNotFound"
    ELSE IF txns[index[order_id]].gateway # gateway THEN "GatewayMismatch"
    ELSE IF txns[index[order_id]].status # PENDING THEN "AlreadyProcessed"
    ELSE IF gateway \in DOMAIN disabledGateways THEN "GatewayUnavailable"
    ELSE "ok"

\* mutant: the status is examined before the gateway
CallbackCheck_StatusFirst(txns, index, order_id, gateway) ==
    IF order_id \notin DOMAIN index THEN "TransactionNotFound"
    ELSE IF index[order_id] \notin DOMAIN txns THEN "TransactionNotFound"
    ELSE IF txns[index[order_id]].status # PENDING THEN "AlreadyProcessed"
    ELSE IF txns[index[order_id]].gateway # gateway THEN "GatewayMismatch"
    ELSE "ok"

\* processCallback: the error it raises for the callback, or "ok"
CallbackCheck(txns, index, order_id, gateway) ==
    IF order_id \notin DOMAIN index THEN "TransactionNotFound"
    ELSE IF index[order_id] \notin DOMAIN txns THEN "TransactionNotFound"
    ELSE IF txns[index[order_id]].gateway # gateway THEN "GatewayMismatch"
    ELSE IF txns[index[order_id]].status # PENDING THEN "AlreadyProcessed"
    ELSE "ok"

\* mutant: the reason is stored whatever the status
CompletedTransaction_AnyReason(txn, isSuccess, reason, t) ==
    [txn EXCEPT !.status = IF isSuccess THEN SUCCESS ELSE FAILURE,
                !.updated_at = t,
                !.failure_reason = IF Truthy(reason) THEN reason ELSE @]

\* mutant: the transition restamps the creation time
CompletedTransaction_Restamps(txn, isSuccess, reason, t) ==
    [txn EXCEPT !.status = IF isSuccess THEN SUCCESS ELSE FAILURE,
                !.created_at = t,
                !.updated_at = t,
                !.failure_reason = IF ~isSuccess /\ Truthy(reason) THEN reason ELSE @]

\* processCallback, lines 139-145: the record after the transition
CompletedTransaction(txn, isSuccess, reason, t) ==
    [txn EXCEPT !.status = IF isSuccess THEN SUCCESS ELSE FAILURE,
                !.updated_at = t,
                !.failure_reason = IF ~isSuccess /\ Truthy(reason) THEN reason ELSE @]

\* getTransactionByOrderId: the record it returns, or the error it raises
getTransactionByOrderId(orderId) ==
    IF orderId \notin DOMAIN orderToTransaction THEN "TransactionNotFound"
    ELSE IF orderToTransaction[orderId] \notin DOMAIN transactions THEN "TransactionNotFound"
    ELSE transactions[orderToTransaction[orderId]]

\* getTransaction: the record it returns, or the error it raises
getTransaction(txns, transactionId) ==
    IF transactionId \notin DOMAIN txns THEN "TransactionNotFound"
    ELSE txns[transactionId]

\* getAllTransactions: the values of the map (in insertion order, which is
\* the order of the ids) sorted by created_at descending; Array.prototype.sort
\* is stable, so equal created_at keep their insertion order
getAllTransactions(txns) ==
    LET ids == DOMAIN txns
        Before(a, b) == \/ txns[a].created_at > txns[b].created_at
                        \/ txns[a].created_at = txns[b].created_at /\ a < b
        order == CHOOSE f \in [1 .. Cardinality(ids) -> ids] :
                    \A i, j \in 1 .. Cardinality(ids) : i < j => Before(f[i], f[j])
    IN  [i \in 1 .. Cardinality(ids) |-> txns[order[i]]]

\* the byGateway entry getStats builds for a gateway from the list
GatewayTally(list, gateway) ==
    LET mine == SelectSeq(list, LAMBDA t : t.gateway = gateway)
    IN  [total |-> Len(mine),
         success |-> Len(SelectSeq(mine, LAMBDA t : t.status = SUCCESS)),
         failure |-> Len(SelectSeq(mine, LAMBDA t : t.status = FAILURE))]

\* the record getStats builds from a list of transactions
StatsOf(list) ==
    [total |-> Len(list),
     pending |-> Len(SelectSeq(list, LAMBDA t : t.status = PENDING)),
     success |-> Len(SelectSeq(list, LAMBDA t : t.status = SUCCESS)),
     failure |-> Len(SelectSeq(list, LAMBDA t : t.status = FAILURE)),
     byGateway |-> [g \in { list[i].gateway : i \in DOMAIN list } |-> GatewayTally(list, g)]]

\* mutant: only the transactions the order index points to are counted
getStats_IndexedOnly(txns) ==
    LET all == getAllTransactions(txns)
    IN  StatsOf(SelectSeq(all, LAMBDA t : /\ t.order_id \in DOMAIN orderToTransaction
                                          /\ orderToTransaction[t.order_id] = t.id))

\* getStats: the counts over getAllTransactions()
getStats(txns) == StatsOf(getAllTransactions(txns))

(* ------------------------------ actions ------------------------------- *)

RECURSIVE TotalRecords(_, _)
TotalRecords(h, names) ==
    IF names = {} THEN 0
    ELSE LET g == CHOOSE x \in names : TRUE
         IN  Len(h[g]) + TotalRecords(h, names \ {g})

Init ==
    /\ transactions = EmptyMap
    /\ orderToTransaction = EmptyMap
    /\ gatewayTransactions = [g \in GatewayNames |-> << >>]
    /\ disabledGateways = EmptyMap
    /\ now = 0
    /\ nextId = 0

\* the clock advances between two calls
TickWithin(step, bound) ==
    /\ now + step <= bound
    /\ now' = now + step
    /\ UNCHANGED << ledgerVars, healthVars >>

Tick(step) == TickWithin(step, MaxTime)

\* mutant: a reused order id keeps its first index entry
Initiate_KeepsFirstIndex(dto, k) ==
    LET selection == selectGateway(disabledGateways, now, k)
        id == nextId + 1
    IN  /\ InitiateCheck(transactions, orderToTransaction, disabledGateways,
                         dto.order_id, now) = "ok"
        /\ nextId < MaxTxns
        /\ nextId' = id
        /\ transactions' = MapSet(transactions, id,
                                  NewTransaction(id, dto, selection, now))
        /\ orderToTransaction' =
              IF dto.order_id \in DOMAIN orderToTransaction THEN orderToTransaction
              ELSE MapSet(orderToTransaction, dto.order_id, id)
        /\ disabledGateways' = AfterGetHealthyGateways(disabledGateways, now)
        /\ UNCHANGED << gatewayTransactions, now >>

\* TransactionsService.initiateTransaction(dto), Math.random() = k / RandomResolution.
\* A call that raises leaves every map as it was (no disable-until has elapsed
\* when no gateway is healthy).
Initiate(dto, k) ==
    LET selection == selectGateway(disabledGateways, now, k)
        id == nextId + 1
    IN  /\ InitiateCheck(transactions, orderToTransaction, disabledGateways,
                         dto.order_id, now) = "ok"
        /\ nextId < MaxTxns
        /\ nextId' = id
        /\ transactions' = MapSet(transactions, id,
                                  NewTransaction(id, dto, selection, now))
        /\ orderToTransaction' = MapSet(orderToTransaction, dto.order_id, id)
        /\ disabledGateways' = AfterGetHealthyGateways(disabledGateways, now)
        /\ UNCHANGED << gatewayTransactions, now >>

\* initiateTransaction with the request of the unit tests
Create(order_id, k) == Initiate(validTransactionDto(order_id), k)

\* initiateTransaction raising DuplicatePendingOrder or NoHealthyGateway
CreateRejected(order_id) ==
    /\ InitiateCheck(transactions, orderToTransaction, disabledGateways,
                     order_id, now) # "ok"
    /\ disabledGateways' =
          IF HasPendingTransaction(transactions, orderToTransaction, order_id)
          THEN disabledGateways
          ELSE AfterGetHealthyGateways(disabledGateways, now)
    /\ UNCHANGED << ledgerVars, gatewayTransactions, now >>

\* mutant: the callback restamps every transaction of the order
Complete_WholeOrder(order_id, gateway, isSuccess, reason) ==
    LET check == CallbackCheck(transactions, orderToTransaction, order_id, gateway)
        id == orderToTransaction[order_id]
        after == recordTransaction(gatewayTransactions, disabledGateways,
                                   gateway, isSuccess, now)
    IN  IF check # "ok"
        THEN UNCHANGED vars
        ELSE /\ transactions' =
                   [x \in DOMAIN transactions |->
                       IF x = id
                       THEN CompletedTransaction(transactions[x], isSuccess, reason, now)
                       ELSE IF transactions[x].order_id = order_id
                            THEN [transactions[x] EXCEPT !.updated_at = now]
                            ELSE transactions[x]]
             /\ gatewayTransactions' = after.h
             /\ disabledGateways' = after.d
             /\ UNCHANGED << orderToTransaction, nextId, now >>

\* TransactionsService.processCallback({order_id, status, gateway, reason});
\* a callback that raises changes nothing
Complete(order_id, gateway, isSuccess, reason) ==
    LET check == CallbackCheck(transactions, orderToTransaction, order_id, gateway)
        id == orderToTransaction[order_id]
        after == recordTransaction(gatewayTransactions, disabledGateways,
                                   gateway, isSuccess, now)
    IN  IF check # "ok"
        THEN UNCHANGED vars
        ELSE /\ transactions' =
                   [transactions EXCEPT ![id] = CompletedTransaction(@, isSuccess, reason, now)]
             /\ gatewayTransactions' = after.h
             /\ disabledGateways' = after.d
             /\ UNCHANGED << orderToTransaction, nextId, now >>

\* mutant: only the order index is cleared
ClearTransactions_KeepsTransactions ==
    /\ orderToTransaction' = EmptyMap
    /\ UNCHANGED << transactions, nextId, healthVars, now >>

\* TransactionsService.clearTransactions()
ClearTransactions ==
    /\ transactions' = EmptyMap
    /\ orderToTransaction' = EmptyMap
    /\ UNCHANGED << nextId, healthVars, now >>

\* GatewayService.recordTransactionResult / GatewayHealthService.recordTransaction,
\* called directly while fewer than bound records are held
RecordWithin(gateway, success, bound) ==
    LET after == recordTransaction(gatewayTransactions, disabledGateways,
                                   gateway, success, now)
    IN  /\ TotalRecords(gatewayTransactions, DOMAIN gatewayTransactions) < bound
        /\ gatewayTransactions' = after.h
        /\ disabledGateways' = after.d
        /\ UNCHANGED << ledgerVars, now >>

Record(gateway, success) == RecordWithin(gateway, success, MaxRecords)

\* GatewayHealthService.isGatewayHealthy(gateway): the read deletes an elapsed entry
IsGatewayHealthy(gateway) ==
    /\ disabledGateways' = AfterIsGatewayHealthy(disabledGateways, gateway, now)
    /\ UNCHANGED << ledgerVars, gatewayTransactions, now >>

\* GatewayHealthService.getGatewayHealth(gateway): it reads the statistics and
\* the stored disable-until, then calls isGatewayHealthy
GetGatewayHealth(gateway) ==
    /\ disabledGateways' = AfterIsGatewayHealthy(disabledGateways, gateway, now)
    /\ UNCHANGED << ledgerVars, gatewayTransactions, now >>

\* GatewayHealthService.getHealthyGateways(), and GatewayService.selectGateway(),
\* which reads the healthy names through it before it draws
GetHealthyGateways ==
    /\ disabledGateways' = AfterGetHealthyGateways(disabledGateways, now)
    /\ UNCHANGED << ledgerVars, gatewayTransactions, now >>

\* GatewayHealthService.disableGateway(gateway, minutes)
Disable(gateway, minutes) ==
    /\ disabledGateways' = disableGateway(disabledGateways, gateway, minutes, now)
    /\ UNCHANGED << ledgerVars, gatewayTransactions, now >>

\* GatewayHealthService.enableGateway(gateway)
Enable(gateway) ==
    /\ disabledGateways' = enableGateway(disabledGateways, gateway)
    /\ UNCHANGED << ledgerVars, gatewayTransactions, now >>

\* GatewayHealthService.resetAllStats()
ResetAllStats ==
    /\ gatewayTransactions' = resetAllStats(gatewayTransactions)
    /\ disabledGateways' = EmptyMap
    /\ UNCHANGED << ledgerVars, now >>

\* GatewayHealthService.cleanupOldRecords()
CleanupOldRecords ==
    /\ gatewayTransactions' = cleanupOldRecords(gatewayTransactions, now)
    /\ UNCHANGED << ledgerVars, disabledGateways, now >>

(* --------------------------- specifications --------------------------- *)

\* the Ledger at one instant of the clock, every gateway healthy: callbacks
\* are the only source of outcomes
Next ==
    \/ \E o \in OrderIds, k \in 0 .. RandomResolution - 1 : Create(o, k)
    \/ \E o \in OrderIds : CreateRejected(o)
    \/ \E o \in OrderIds, g \in GatewayInputs, ok \in BOOLEAN, r \in Reasons :
          Complete(o, g, ok, r)
    \/ ClearTransactions

Spec == Init /\ [][Next]_vars

\* the Health Tracker on its own, over time
NextHealth ==
    \/ \E step \in ClockSteps : Tick(step)
    \/ \E g \in RecordInputs, ok \in BOOLEAN : Record(g, ok)
    \/ \E g \in GatewayNames : IsGatewayHealthy(g)
    \/ \E g \in GatewayNames : GetGatewayHealth(g)
    \/ GetHealthyGateways
    \/ \E g \in GatewayNames, m \in DisableMinutes : Disable(g, m)
    \/ \E g \in GatewayNames : Enable(g)
    \/ ResetAllStats
    \/ CleanupOldRecords

SpecHealth == Init /\ [][NextHealth]_vars

\* the Ledger during outages: one order retried while gateways are disabled
\* and enabled by hand
NextOutage ==
    \/ \E o \in LoopOrders, k \in 0 .. RandomResolution - 1 : Create(o, k)
    \/ \E o \in LoopOrders : CreateRejected(o)
    \/ \E o \in LoopOrders, g \in GatewayNames, ok \in BOOLEAN : Complete(o, g, ok, Undefined)
    \/ \E g \in GatewayNames : Disable(g, UNHEALTHY_COOLDOWN_MINUTES)
    \/ \E g \in GatewayNames : Enable(g)

SpecOutage == Init /\ [][NextOutage]_vars

\* the clock advances by some step
TickAny == \E step \in ClockSteps : Tick(step)

\* the Health Tracker left to itself: gateways are disabled by hand or by
\* recorded failures and callers read their health, but nobody enables a
\* gateway or resets the statistics
NextNoEnable ==
    \/ TickAny
    \/ \E g \in RecordInputs : Record(g, FALSE)
    \/ \E g \in GatewayNames : IsGatewayHealthy(g)
    \/ GetHealthyGateways
    \/ \E g \in GatewayNames, m \in DisableMinutes : Disable(g, m)

SpecNoEnable == Init /\ [][NextNoEnable]_vars

\* time keeps advancing: a caller that waits is served later
SpecRecovery == SpecNoEnable /\ WF_vars(TickAny)

\* one gateway at one instant of the clock, fed outcomes up to the sample
\* at which the success rate can equal the threshold
NextSample ==
    \/ \E g \in RecordInputs, ok \in BOOLEAN : RecordWithin(g, ok, MaxSample)
    \/ \E g \in RecordInputs : Disable(g, HEALTH_CHECK_WINDOW_MINUTES)
    \/ \E g \in RecordInputs : Enable(g)

SpecSample == Init /\ [][NextSample]_vars

\* recordTransaction called directly, with configured names and with a name
\* outside the configuration
NextRecord ==
    \/ \E g \in RecordInputs, ok \in BOOLEAN : Record(g, ok)
    \/ \E g \in GatewayInputs \ GatewayNames, ok \in BOOLEAN : Record(g, ok)

SpecRecord == Init /\ [][NextRecord]_vars

\* outcomes recorded over three health windows, pruned at any moment
NextPrune ==
    \/ \E step \in ClockSteps : TickWithin(step, MaxPruneTime)
    \/ \E g \in RecordInputs, ok \in BOOLEAN : Record(g, ok)
    \/ CleanupOldRecords

SpecPrune == Init /\ [][NextPrune]_vars

\* callbacks that arrive after their gateway was disabled: payu by hand for a
\* health window, razorpay by failures recorded directly
NextLate ==
    \/ \E o \in OrderIds, k \in 0 .. RandomResolution - 1 : Create(o, k)
    \/ \E o \in OrderIds : CreateRejected(o)
    \/ \E o \in OrderIds, g \in GatewayNames, ok \in BOOLEAN : Complete(o, g, ok, Undefined)
    \/ \E g \in RecordInputs : Record(g, FALSE)
    \/ \E g \in {"payu"} : Disable(g, HEALTH_CHECK_WINDOW_MINUTES)

SpecLate == Init /\ [][NextLate]_vars

\* a gateway disabled by hand for an hour while its failures are still reported
NextManual ==
    \/ \E step \in ClockSteps : Tick(step)
    \/ \E g \in RecordInputs : Record(g, FALSE)
    \/ \E g \in RecordInputs, m \in LongDisableMinutes : Disable(g, m)

SpecManual == Init /\ [][NextManual]_vars

\* the closed loop: one order retried, failures reported directly and
\* outcomes reported through callbacks, the clock read once per cooldown
NextLoop ==
    \/ \E step \in LoopClockSteps : Tick(step)
    \/ \E o \in LoopOrders, k \in 0 .. RandomResolution - 1 : Create(o, k)
    \/ \E o \in LoopOrders : CreateRejected(o)
    \/ \E o \in LoopOrders, g \in GatewayNames, ok \in BOOLEAN : Complete(o, g, ok, Undefined)
    \/ \E g \in RecordInputs : Record(g, FALSE)
    \/ \E g \in RecordInputs : Enable(g)

SpecLoop == Init /\ [][NextLoop]_vars

\* an operational reset of the health state while orders are in flight
NextReset ==
    \/ \E step \in LoopClockSteps : Tick(step)
    \/ \E o \in LoopOrders, k \in 0 .. RandomResolution - 1 : Create(o, k)
    \/ \E o \in LoopOrders : CreateRejected(o)
    \/ \E o \in LoopOrders, g \in GatewayNames, ok \in BOOLEAN : Complete(o, g, ok, Undefined)
    \/ \E g \in RecordInputs : Disable(g, HEALTH_CHECK_WINDOW_MINUTES)
    \/ ResetAllStats

SpecReset == Init /\ [][NextReset]_vars

\* the intake: one order retried with every request, the draw at either end
\* of its range, callbacks with and without a reason
NextIntake ==
    \/ \E step \in LoopClockSteps : Tick(step)
    \/ \E o \in LoopOrders, k \in {0, RandomResolution - 1} :
          \E dto \in IntakeDtos(o) : Initiate(dto, k)
    \/ \E o \in LoopOrders : CreateRejected(o)
    \/ \E o \in LoopOrders, g \in GatewayNames, ok \in BOOLEAN, r \in Reasons :
          Complete(o, g, ok, r)
    \/ ClearTransactions

SpecIntake == Init /\ [][NextIntake]_vars

(* ------------------------ shared vocabulary --------------------------- *)

Terminal == {SUCCESS, FAILURE}

\* the transaction the order index holds for the order
Indexed(o) == transactions[orderToTransaction[o]]

IsIndexed(o) == o \in DOMAIN orderToTransaction /\ orderToTransaction[o] \in DOMAIN transactions

\* the transactions that leave PENDING in the step
Transitioned ==
    { id \in (DOMAIN transactions) \cap (DOMAIN transactions') :
        transactions[id].status = PENDING /\ transactions'[id].status # PENDING }

\* the transactions the step stores
Created == (DOMAIN transactions') \ (DOMAIN transactions)

\* the step appends exactly the record rec to the history of gateway g and
\* leaves every other history as it was
AppendsOnly(g, rec) ==
    /\ DOMAIN gatewayTransactions' = (DOMAIN gatewayTransactions) \cup {g}
    /\ gatewayTransactions'[g] = Append(GetOrEmpty(gatewayTransactions, g), rec)
    /\ \A x \in (DOMAIN gatewayTransactions) \ {g} :
          gatewayTransactions'[x] = gatewayTransactions[x]

\* the names getHealthyGateways returns in the current state
HealthyNames ==
    LET names == getHealthyGateways(disabledGateways, now)
    IN  { names[i] : i \in DOMAIN names }

(* ------------------------------- C1 ----------------------------------- *)

\* C1: no two stored transactions with the same order id are both PENDING, and
\* initiateTransaction raises DuplicatePendingOrder whenever the order index
\* maps the order id to a PENDING transaction.
C1_NoDuplicatePending ==
    /\ \A a, b \in DOMAIN transactions :
          (a # b /\ transactions[a].order_id = transactions[b].order_id)
             => ~(transactions[a].status = PENDING /\ transactions[b].status = PENDING)
    /\ \A o \in OrderIds :
          (IsIndexed(o) /\ Indexed(o).status = PENDING)
             => InitiateCheck(transactions, orderToTransaction, disabledGateways, o, now)
                   = "DuplicatePendingOrder"

\* an order retried after a terminal transaction, whose retry is PENDING: a
\* further create for it is rejected
C1_Witness ==
    \E o \in OrderIds :
       /\ IsIndexed(o) /\ Indexed(o).status = PENDING
       /\ \E id \in DOMAIN transactions :
             /\ id # orderToTransaction[o]
             /\ transactions[id].order_id = o
             /\ transactions[id].status \in Terminal
       /\ InitiateCheck(transactions, orderToTransaction, disabledGateways, o, now)
             = "DuplicatePendingOrder"

(* ------------------------------- C2 ----------------------------------- *)

\* the step stores a transaction for order o, which was indexed to a terminal
\* transaction: the new one is PENDING, its id was not stored before, and the
\* index, getTransactionByOrderId and processCallback now address it
C2_RetryStep ==
    \A id \in Created :
       LET o == transactions'[id].order_id
       IN  (o \in DOMAIN orderToTransaction /\ orderToTransaction[o] \in DOMAIN transactions
               /\ transactions[orderToTransaction[o]].status \in Terminal)
           => /\ id \notin DOMAIN transactions
              /\ transactions'[id].status = PENDING
              /\ orderToTransaction'[o] = id
              /\ transactions'[orderToTransaction'[o]] = transactions'[id]
              /\ CallbackCheck(transactions', orderToTransaction', o,
                               transactions'[id].gateway) = "ok"
              /\ \A old \in DOMAIN transactions : transactions'[old] = transactions[old]

\* C2 as stated: once the indexed transaction of an order is terminal, the next
\* create for the order succeeds, with a new PENDING transaction under a fresh
\* id that the order index addresses.
C2_Original ==
    \A o \in LoopOrders :
       (IsIndexed(o) /\ Indexed(o).status \in Terminal)
          => InitiateCheck(transactions, orderToTransaction, disabledGateways, o, now) = "ok"

\* C2 as amended: once the indexed transaction of an order is terminal, the
\* next create for the order is never rejected as a duplicate; it succeeds
\* whenever some gateway is healthy, and raises NoHealthyGateway otherwise;
\* when it succeeds the new transaction is PENDING under a fresh id and the
\* order index addresses it.
C2_RetryAfterTerminal ==
    /\ [](\A o \in LoopOrders :
             (IsIndexed(o) /\ Indexed(o).status \in Terminal)
                => InitiateCheck(transactions, orderToTransaction, disabledGateways, o, now)
                      = (IF HealthyNames = {} THEN "NoHealthyGateway" ELSE "ok"))
    /\ [][C2_RetryStep]_vars

\* an order whose first transaction is terminal and whose retry is stored and indexed
C2_Witness ==
    \E o \in LoopOrders :
       /\ IsIndexed(o) /\ Indexed(o).status = PENDING
       /\ \E id \in DOMAIN transactions :
             /\ id < orderToTransaction[o]
             /\ transactions[id].order_id = o
             /\ transactions[id].status \in Terminal

(* ------------------------------- C3 ----------------------------------- *)

\* a terminal transaction keeps its status and its failure reason
C3_TerminalKept ==
    \A id \in (DOMAIN transactions) \cap (DOMAIN transactions') :
       transactions[id].status \in Terminal
          => /\ transactions'[id].status = transactions[id].status
             /\ transactions'[id].failure_reason = transactions[id].failure_reason

\* an outcome reaches the Health Tracker only with a transaction leaving PENDING
C3_OutcomeOnlyOnTransition ==
    gatewayTransactions' # gatewayTransactions => Transitioned # {}

\* C3: terminal states are immutable; a second callback for the order with the
\* assigned gateway raises AlreadyProcessed, leaves the stored status and
\* reason, and appends no outcome.
C3_TerminalImmutable ==
    /\ [](\A o \in OrderIds :
             (IsIndexed(o) /\ Indexed(o).status \in Terminal)
                => CallbackCheck(transactions, orderToTransaction, o, Indexed(o).gateway)
                      = "AlreadyProcessed")
    /\ [][C3_TerminalKept /\ C3_OutcomeOnlyOnTransition]_vars

\* both orders completed, one with a stored failure reason: every further
\* callback for them is a second callback
C3_Witness ==
    /\ \A o \in OrderIds : IsIndexed(o) /\ Indexed(o).status \in Terminal
    /\ \E o \in OrderIds : Indexed(o).status = FAILURE
                             /\ Indexed(o).failure_reason = "Customer Cancelled"
    /\ \E o \in OrderIds : Indexed(o).status = SUCCESS

(* ------------------------------- C4 ----------------------------------- *)

\* a transaction changes only by leaving PENDING, with one outcome appended to
\* the history of its assigned gateway and no other history touched
C4_ChangeOnlyByAssignedGateway ==
    \A id \in (DOMAIN transactions) \cap (DOMAIN transactions') :
       transactions'[id] # transactions[id]
          => /\ id \in Transitioned
             /\ \E ok \in BOOLEAN :
                   AppendsOnly(transactions[id].gateway, [timestamp |-> now, success |-> ok])

\* C4: a callback naming another gateway than the assigned one raises
\* GatewayMismatch and changes nothing.
C4_GatewayMismatch ==
    /\ [](\A o \in OrderIds, g \in GatewayInputs :
             (IsIndexed(o) /\ g # Indexed(o).gateway)
                => CallbackCheck(transactions, orderToTransaction, o, g) = "GatewayMismatch")
    /\ [][C4_ChangeOnlyByAssignedGateway
          /\ (Transitioned = {} => gatewayTransactions' = gatewayTransactions)]_vars

\* a PENDING transaction beside a completed one: callbacks naming any other
\* gateway than its own are mismatches
C4_Witness ==
    \E o \in OrderIds :
       /\ IsIndexed(o) /\ Indexed(o).status = PENDING
       /\ \A g \in GatewayInputs \ {Indexed(o).gateway} :
             CallbackCheck(transactions, orderToTransaction, o, g) = "GatewayMismatch"
       /\ \E g \in GatewayNames : Len(gatewayTransactions[g]) > 0
       /\ gatewayTransactions[Indexed(o).gateway] = << >>

(* ------------------------------- C5 ----------------------------------- *)

\* the number of records of the history with the given success flag
CountOutcomes(g, ok) ==
    Len(SelectSeq(GetOrEmpty(gatewayTransactions, g), LAMBDA r : r.success = ok))

\* the number of stored transactions of the gateway with the given status
CountTransactions(g, status) ==
    Cardinality({ id \in DOMAIN transactions :
                    transactions[id].gateway = g /\ transactions[id].status = status })

\* a transaction leaving PENDING appends exactly one outcome, with its flag,
\* to the history of its gateway
C5_OneOutcomePerCompletion ==
    /\ Cardinality(Transitioned) <= 1
    /\ \A id \in Transitioned :
          AppendsOnly(transactions[id].gateway,
                      [timestamp |-> now,
                       success |-> (transactions'[id].status = SUCCESS)])
    /\ (Transitioned = {} => gatewayTransactions' = gatewayTransactions)

\* C5: every successful callback appends exactly one outcome with the same
\* flag to the assigned gateway's history and every failing one appends none;
\* so, while no transaction has been cleared, the recorded successes and
\* failures of each gateway are the SUCCESS and FAILURE transactions assigned
\* to it.
C5_FeedbackLoop ==
    /\ [][C5_OneOutcomePerCompletion]_vars
    /\ [](nextId = Cardinality(DOMAIN transactions)
            => \A g \in DOMAIN gatewayTransactions :
                  /\ CountOutcomes(g, TRUE) = CountTransactions(g, SUCCESS)
                  /\ CountOutcomes(g, FALSE) = CountTransactions(g, FAILURE))

\* one gateway with a success and a failure recorded by two callbacks
C5_Witness ==
    \E g \in GatewayNames :
       /\ CountOutcomes(g, TRUE) = 1 /\ CountOutcomes(g, FALSE) = 1
       /\ CountTransactions(g, SUCCESS) = 1 /\ CountTransactions(g, FAILURE) = 1

(* ------------------------------- C6 ----------------------------------- *)

\* the breaker of gateway g is open: a disable-until is stored and has not elapsed
BreakerOpen(g) == g \in DOMAIN disabledGateways /\ ~(now > disabledGateways[g])

\* a failure callback that leaves the gateway's windowed outcomes at the
\* minimum sample size or more, with a success rate below the threshold,
\* disables the gateway for the cooldown
C6_FailureCallbackTrips ==
    \A id \in Transitioned :
       LET g == transactions[id].gateway
           stats == getGatewayStats(gatewayTransactions', g, now)
       IN  (/\ transactions'[id].status = FAILURE
            /\ stats.totalRequests >= MIN_REQUESTS_FOR_HEALTH_CHECK
            /\ BelowThreshold(stats))
           => /\ g \in DOMAIN disabledGateways'
              /\ disabledGateways'[g] = now + UNHEALTHY_COOLDOWN_MINUTES

\* a create is never assigned a gateway whose breaker is open
C6_CreateAvoidsOpenBreaker ==
    \A id \in Created : ~BreakerOpen(transactions'[id].gateway)

\* an open breaker stays open, with a disable-until no earlier than before,
\* unless the step is enableGateway for that gateway
C6_OpenUntilEnabled ==
    \A g \in GatewayNames :
       BreakerOpen(g)
          => \/ g \in DOMAIN disabledGateways' /\ disabledGateways'[g] >= disabledGateways[g]
             \/ /\ disabledGateways' = enableGateway(disabledGateways, g)
                /\ UNCHANGED << ledgerVars, gatewayTransactions, now >>

\* C6: when failure callbacks bring a gateway's windowed outcomes to the
\* minimum sample size with a success rate below the threshold, the gateway is
\* disabled, and every create that follows is assigned another gateway until
\* the disable-until has elapsed or the gateway is enabled.
C6_ClosedLoop ==
    [][C6_FailureCallbackTrips /\ C6_CreateAvoidsOpenBreaker /\ C6_OpenUntilEnabled]_vars

\* a failure callback for a transaction on razorpay tripped its breaker, and
\* the create that followed went to another gateway
C6_Witness ==
    \E a, b \in DOMAIN transactions :
       /\ transactions[a].gateway = "razorpay"
       /\ transactions[a].status = FAILURE
       /\ BreakerOpen("razorpay")
       /\ disabledGateways["razorpay"] = transactions[a].updated_at + UNHEALTHY_COOLDOWN_MINUTES
       /\ transactions[b].status = PENDING
       /\ transactions[b].created_at >= transactions[a].updated_at
       /\ b > a
       /\ transactions[b].gateway # "razorpay"

(* ------------------------------- C7 ----------------------------------- *)

\* the gateways selectGateway can return in the current state
Selectable ==
    IF Len(getHealthyGatewayConfigs(disabledGateways, now)) = 0 THEN {}
    ELSE { selectGateway(disabledGateways, now, k).gateway : k \in 0 .. RandomResolution - 1 }

\* the step is disableGateway(g, minutes) with minutes > 0
DisabledBy(g) ==
    /\ \E m \in DisableMinutes :
          m > 0 /\ disabledGateways' = disableGateway(disabledGateways, g, m, now)
    /\ UNCHANGED << ledgerVars, gatewayTransactions, now >>

Elapsed(g) == g \in DOMAIN disabledGateways /\ now > disabledGateways[g]

\* the clock of the model can still pass the disable-until of g
CanElapse(g) ==
    \E step \in ClockSteps, n \in 0 .. MaxTime :
       now + n * step <= MaxTime /\ now + n * step > disabledGateways[g]

\* C8: once the clock has passed the disable-until of a gateway,
\* isGatewayHealthy returns true, the gateway is in getHealthyGateways again
\* and the read deletes the stored disable-until; so, the clock advancing,
\* every disabled gateway becomes selectable again unless it is disabled anew
\* beyond the last instant of the clock.
C8_AutomaticRecovery ==
    /\ [](\A g \in GatewayNames :
             Elapsed(g)
                => /\ isGatewayHealthy(disabledGateways, g, now)
                   /\ g \in HealthyNames
                   /\ g \in Selectable
                   /\ g \notin DOMAIN AfterIsGatewayHealthy(disabledGateways, g, now)
                   /\ g \notin DOMAIN AfterGetHealthyGateways(disabledGateways, now))
    /\ \A g \in GatewayNames :
          (g \in DOMAIN disabledGateways /\ CanElapse(g))
             ~> (g \in Selectable \/ (g \in DOMAIN disabledGateways /\ ~CanElapse(g)))

\* razorpay was disabled for a quarter of an hour, the clock has passed the
\* disable-until, and no read has deleted the entry yet
C8_Witness ==
    /\ Elapsed("razorpay")
    /\ disabledGateways["razorpay"] = 15
    /\ now = 30

(* ------------------------------- C9 ----------------------------------- *)

\* C9: isGatewayHealthy returns false exactly when a disable-until is stored
\* for the gateway and is strictly later than the current time; when the
\* current time equals the stored disable-until the gateway is reported
\* healthy.
C9_UnhealthyIffStrictlyLater ==
    \A g \in GatewayNames :
       (isGatewayHealthy(disabledGateways, g, now) = FALSE)
          <=> (g \in DOMAIN disabledGateways /\ disabledGateways[g] > now)

(* ------------------------------- C10 ---------------------------------- *)

\* the step records one outcome for gateway g with the given flag
Recorded(g, ok) == AppendsOnly(g, [timestamp |-> now, success |-> ok]) /\ now' = now

\* after the step the window of g holds exactly the minimum sample, with a
\* success rate below the threshold
MinSampleBelowThreshold(g) ==
    LET stats == getGatewayStats(gatewayTransactions', g, now')
    IN  stats.totalRequests = MIN_REQUESTS_FOR_HEALTH_CHECK /\ BelowThreshold(stats)

\* C10 as stated: once exactly the minimum sample of outcomes is recorded
\* for a gateway inside the window, with a success rate below the threshold,
\* the gateway is unhealthy, in whatever order they were recorded.
C10_Original ==
    [][\A g \in RecordInputs, ok \in BOOLEAN :
          (Recorded(g, ok) /\ MinSampleBelowThreshold(g))
             => ~isGatewayHealthy(disabledGateways', g, now')]_vars

\* C10 as amended: once exactly the minimum sample of outcomes is recorded
\* for a gateway inside the window, with a success rate below the threshold,
\* and the last of them recorded is a failure, the gateway is unhealthy, with
\* a disable-until one cooldown ahead, in whatever order the earlier ones were
\* recorded.
C10_TripAtMinSample ==
    [][\A g \in RecordInputs :
          (Recorded(g, FALSE) /\ MinSampleBelowThreshold(g))
             => /\ ~isGatewayHealthy(disabledGateways', g, now')
                /\ disabledGateways'[g] = now + UNHEALTHY_COOLDOWN_MINUTES]_vars

\* razorpay tripped by the last of exactly five outcomes inside the window,
\* a failure first, successes between, a failure last
C10_Witness ==
    LET w == WindowTransactions(gatewayTransactions, "razorpay", now)
    IN  /\ Len(w) = MIN_REQUESTS_FOR_HEALTH_CHECK
        /\ Len(gatewayTransactions["razorpay"]) = MIN_REQUESTS_FOR_HEALTH_CHECK
        /\ ~w[1].success /\ w[2].success /\ w[3].success /\ w[4].success
        /\ ~w[Len(w)].success
        /\ w[Len(w)].timestamp = now
        /\ "razorpay" \in DOMAIN disabledGateways
        /\ disabledGateways["razorpay"] = now + UNHEALTHY_COOLDOWN_MINUTES

(* ------------------------------- C11 ---------------------------------- *)

\* the outcomes of g stored after the step whose timestamp is inside the window
InWindowAfter(g) ==
    { i \in DOMAIN gatewayTransactions'[g] :
        gatewayTransactions'[g][i].timestamp >= now' - HEALTH_CHECK_WINDOW_MINUTES }

\* C11: while fewer than the minimum sample of outcomes of a gateway lie
\* inside the health window, recording an outcome never sets its
\* disable-until, whatever the success rate and however many older outcomes
\* lie outside the window.
C11_NoTripBelowMinSample ==
    [][\A g \in RecordInputs, ok \in BOOLEAN :
          (Recorded(g, ok) /\ Cardinality(InWindowAfter(g)) < MIN_REQUESTS_FOR_HEALTH_CHECK)
             => disabledGateways' = disabledGateways]_vars

\* razorpay with the minimum sample of failures stored, all but the last
\* outside the window, and no disable-until
C11_Witness ==
    LET h == gatewayTransactions["razorpay"]
    IN  /\ Len(h) >= MIN_REQUESTS_FOR_HEALTH_CHECK
        /\ \A i \in DOMAIN h : ~h[i].success
        /\ h[Len(h)].timestamp = now
        /\ Len(WindowTransactions(gatewayTransactions, "razorpay", now)) = 1
        /\ "razorpay" \notin DOMAIN disabledGateways

(* ------------------------------- C12 ---------------------------------- *)

\* the successes among the outcomes of g inside the window after the step
SuccessesInWindowAfter(g) ==
    { i \in InWindowAfter(g) : gatewayTransactions'[g][i].success }

\* C12: when a failure is recorded for a gateway and the window then holds
\* n outcomes, n at least the minimum sample, s of them successes, the
\* disable-until of the gateway becomes now + cooldown if s/n is strictly
\* below the threshold and is left as it was if s/n is the threshold or more
\* (9 successes out of 10 do not trip the breaker).
C12_TripStrictlyBelowThreshold ==
    [][\A g \in RecordInputs :
          LET n == Cardinality(InWindowAfter(g))
              s == Cardinality(SuccessesInWindowAfter(g))
          IN  (Recorded(g, FALSE) /\ n >= MIN_REQUESTS_FOR_HEALTH_CHECK)
                 => IF s * ThresholdDen < ThresholdNum * n
                    THEN /\ g \in DOMAIN disabledGateways'
                         /\ disabledGateways'[g] = now + UNHEALTHY_COOLDOWN_MINUTES
                         /\ \A x \in (DOMAIN disabledGateways') \ {g} :
                               x \in DOMAIN disabledGateways
                               /\ disabledGateways'[x] = disabledGateways[x]
                    ELSE disabledGateways' = disabledGateways]_vars

\* razorpay after nine successes and a failure, the failure recorded last:
\* the rate is the threshold and no disable-until is stored
C12_Witness ==
    LET h == gatewayTransactions["razorpay"]
    IN  /\ Len(h) = 10
        /\ \A i \in 1 .. 9 : h[i].success
        /\ ~h[10].success
        /\ "razorpay" \notin DOMAIN disabledGateways

(* ------------------------------- C13 ---------------------------------- *)

\* the orders initiateTransaction does not reject as duplicates
Retryable == { o \in LoopOrders : ~HasPendingTransaction(transactions, orderToTransaction, o) }

\* C13: selectGateway raises NoHealthyGateway exactly when the healthy set is
\* empty and returns a configured gateway otherwise; initiateTransaction
\* propagates the failure, and then stores no transaction and adds no
\* order-index entry.
C13_NoHealthyGateway ==
    /\ []((SelectCheck(disabledGateways, now) = "NoHealthyGateway") <=> (HealthyNames = {}))
    /\ [](HealthyNames # {}
            => \A k \in 0 .. RandomResolution - 1 :
                  selectGateway(disabledGateways, now, k).gateway \in HealthyNames)
    /\ [](HealthyNames = {}
            => \A o \in Retryable :
                  InitiateCheck(transactions, orderToTransaction, disabledGateways, o, now)
                     = "NoHealthyGateway")
    /\ [][HealthyNames = {}
            => /\ DOMAIN transactions' = DOMAIN transactions
               /\ orderToTransaction' = orderToTransaction
               /\ nextId' = nextId]_vars

\* every gateway disabled while the order can be retried: its create raises
\* NoHealthyGateway
C13_Witness ==
    /\ HealthyNames = {}
    /\ Retryable # {}
    /\ \E o \in LoopOrders : IsIndexed(o) /\ Indexed(o).status \in Terminal

(* ------------------------------- C14 ---------------------------------- *)

\* the configured gateways whose enabled flag is true and whose disable-until,
\* if any, is not in the future
EnabledNotDisabled ==
    { GATEWAY_CONFIG[i].name :
        i \in { j \in DOMAIN GATEWAY_CONFIG :
                  /\ GATEWAY_CONFIG[j].enabled
                  /\ ~(/\ GATEWAY_CONFIG[j].name \in DOMAIN disabledGateways
                       /\ disabledGateways[GATEWAY_CONFIG[j].name] > now) } }

\* C14: getHealthyGateways returns exactly the configured gateways whose
\* enabled flag is true and which have no disable-until in the future; every
\* gateway selectGateway returns is one of them; a gateway whose enabled flag
\* is false is never selected.
C14_HealthySetExact ==
    /\ HealthyNames = EnabledNotDisabled
    /\ Selectable \subseteq EnabledNotDisabled
    /\ \A i \in DOMAIN GATEWAY_CONFIG :
          ~GATEWAY_CONFIG[i].enabled => GATEWAY_CONFIG[i].name \notin Selectable

(* ------------------------------- C15 ---------------------------------- *)

\* the configured gateways of the healthy set, in configured order
HealthyConfigs == SelectSeq(GATEWAY_CONFIG, LAMBDA c : c.name \in HealthyNames)

\* the draw k / RandomResolution of the total healthy weight, compared with
\* the weight w:  r >= w, r > w
DrawAtLeast(k, w) == k * SumWeights(HealthyConfigs) >= w * RandomResolution
DrawAbove(k, w) == k * SumWeights(HealthyConfigs) > w * RandomResolution

C16_HalfOpenInterval ==
    HealthyNames # {}
       => \A k \in 0 .. RandomResolution - 1 :
             \E i \in DOMAIN HealthyConfigs :
                /\ selectGateway(disabledGateways, now, k).gateway = HealthyConfigs[i].name
                /\ DrawAtLeast(k, CumulativeWeight(HealthyConfigs, i - 1))
                /\ ~DrawAtLeast(k, CumulativeWeight(HealthyConfigs, i))

(* ------------------------------- C19 ---------------------------------- *)

\* the gateway names a caller can pass that are not configured
UnknownGateways == GatewayInputs \ GatewayNames

\* C19: recordTransaction with a gateway name that is not configured is a
\* no-op: no step changes the history or the disable-until the Health Tracker
\* holds for such a name, and none is created.
C19_UnknownGatewayNoOp ==
    [][\A g \in UnknownGateways :
          /\ g \notin DOMAIN gatewayTransactions'
          /\ g \notin DOMAIN disabledGateways']_vars

(* ------------------------------- C20 ---------------------------------- *)

\* the outcomes of g stored now whose timestamp is at or after now minus the window
InWindow(g) ==
    { i \in DOMAIN gatewayTransactions[g] :
        gatewayTransactions[g][i].timestamp >= now - HEALTH_CHECK_WINDOW_MINUTES }

\* C20: getGatewayHealth counts exactly the outcomes of the gateway whose
\* timestamp is at or after now minus the health window: totalRequests is
\* successCount + failureCount, older outcomes are not counted, and
\* successRate is successCount / totalRequests, or 1 when totalRequests is 0.
C20_WindowedStats ==
    \A g \in GatewayNames :
       LET st == getGatewayHealth(gatewayTransactions, disabledGateways, g, now)
           successes == { i \in InWindow(g) : gatewayTransactions[g][i].success }
       IN  /\ st.totalRequests = Cardinality(InWindow(g))
           /\ st.successCount = Cardinality(successes)
           /\ st.failureCount = Cardinality(InWindow(g) \ successes)
           /\ st.totalRequests = st.successCount + st.failureCount
           /\ IF st.totalRequests = 0
              THEN st.successRate.num = st.successRate.den
              ELSE st.successRate.num * st.totalRequests
                      = st.successCount * st.successRate.den

\* razorpay with an outcome older than the window, a success recorded
\* exactly at the start of the window and a failure recorded now
C20_Witness ==
    LET h == gatewayTransactions["razorpay"]
    IN  /\ \E i \in DOMAIN h : h[i].timestamp < now - HEALTH_CHECK_WINDOW_MINUTES
        /\ \E i \in DOMAIN h : h[i].timestamp = now - HEALTH_CHECK_WINDOW_MINUTES /\ h[i].success
        /\ \E i \in DOMAIN h : h[i].timestamp = now /\ ~h[i].success
        /\ gatewayTransactions["payu"] = << >>

(* ------------------------------- C21 ---------------------------------- *)

\* every disable-until but that of g is as it was
OthersKept(g) ==
    /\ (DOMAIN disabledGateways') \ {g} = (DOMAIN disabledGateways) \ {g}
    /\ \A x \in (DOMAIN disabledGateways) \ {g} : disabledGateways'[x] = disabledGateways[x]

\* a disableGateway(g, m) step stores now + m for g and keeps the others
C21_DisableSets ==
    \A g \in GatewayNames, m \in DisableMinutes :
       (/\ disabledGateways' = disableGateway(disabledGateways, g, m, now)
        /\ gatewayTransactions' = gatewayTransactions
        /\ now' = now)
          => /\ g \in DOMAIN disabledGateways'
             /\ disabledGateways'[g] = now + m
             /\ OthersKept(g)

\* a step that stores for g a disable-until that only disableGateway can
\* store (now + m, m not the cooldown) changes nothing else
C21_DisableFrame ==
    \A g \in GatewayNames, m \in DisableMinutes \ {UNHEALTHY_COOLDOWN_MINUTES} :
       (/\ g \in DOMAIN disabledGateways'
        /\ disabledGateways'[g] = now + m
        /\ (g \in DOMAIN disabledGateways => disabledGateways[g] # now + m))
          => /\ OthersKept(g)
             /\ UNCHANGED << gatewayTransactions, ledgerVars, now >>

\* a step that removes the disable-until of g before it has elapsed is
\* enableGateway(g), which changes nothing else, or resetAllStats
C21_EnableFrame ==
    \A g \in GatewayNames :
       (BreakerOpen(g) /\ g \notin DOMAIN disabledGateways')
          => \/ OthersKept(g) /\ UNCHANGED << gatewayTransactions, ledgerVars, now >>
             \/ /\ disabledGateways' = EmptyMap
                /\ gatewayTransactions' = resetAllStats(gatewayTransactions)

\* C21: disableGateway(g, minutes) sets the disable-until of g to
\* now + minutes and enableGateway(g) clears it, whatever the history of g,
\* changing no history and no other disable-until; with no disable-until
\* stored, isGatewayHealthy(g) is true even if the windowed success rate of
\* g is below the threshold.
C21_ManualOverride ==
    /\ [][C21_DisableSets /\ C21_DisableFrame /\ C21_EnableFrame]_vars
    /\ [](\A g \in GatewayNames :
             g \notin DOMAIN disabledGateways
                => isGatewayHealthy(disabledGateways, g, now))

\* razorpay enabled by hand with the minimum sample of failures in its
\* window, while payu is disabled by hand for a quarter of an hour
C21_Witness ==
    LET stats == getGatewayStats(gatewayTransactions, "razorpay", now)
    IN  /\ stats.totalRequests >= MIN_REQUESTS_FOR_HEALTH_CHECK
        /\ BelowThreshold(stats)
        /\ "razorpay" \notin DOMAIN disabledGateways
        /\ isGatewayHealthy(disabledGateways, "razorpay", now)
        /\ "payu" \in DOMAIN disabledGateways
        /\ disabledGateways["payu"] = now + HEALTH_CHECK_WINDOW_MINUTES

(* ------------------------------- C22 ---------------------------------- *)

\* the step is resetAllStats() and had something to clear: a history of a
\* configured gateway or a disable-until that has not elapsed
ResetDone ==
    /\ gatewayTransactions' = resetAllStats(gatewayTransactions)
    /\ disabledGateways' = EmptyMap
    /\ \/ \E g \in GatewayNames : BreakerOpen(g)
       \/ \E g \in GatewayNames : GetOrEmpty(gatewayTransactions, g) # << >>

\* C22: after resetAllStats() every configured gateway has an empty history
\* (getGatewayHealth reports totalRequests 0 and successRate 1) and no
\* disable-until, so every statically enabled gateway is returned by
\* getHealthyGateways; transactions and the order index are unchanged.
C22_ResetAll ==
    [][ResetDone =>
          /\ \A g \in GatewayNames :
                LET health == getGatewayHealth(gatewayTransactions', disabledGateways', g, now')
                IN  /\ GetOrEmpty(gatewayTransactions', g) = << >>
                    /\ health.totalRequests = 0
                    /\ health.successRate = [num |-> 1, den |-> 1]
                    /\ health.disabledUntil = << >>
                    /\ health.isHealthy
          /\ LET names == getHealthyGateways(disabledGateways', now')
             IN  { names[i] : i \in DOMAIN names } = EnabledNames
          /\ UNCHANGED ledgerVars]_vars

\* a reset has just cleared: a transaction is stored, no configured gateway
\* has a history or a disable-until
C22_Witness ==
    /\ DOMAIN transactions # {}
    /\ \E id \in DOMAIN transactions : transactions[id].status \in Terminal
    /\ disabledGateways = EmptyMap
    /\ \A g \in GatewayNames : GetOrEmpty(gatewayTransactions, g) = << >>

(* ------------------------------- C23 ---------------------------------- *)

\* the step empties the transaction map and the order index
LedgerCleared == transactions' = EmptyMap /\ orderToTransaction' = EmptyMap

\* the order stays indexed, by the same transaction or by one the step stores
C23_EntryKept(o) ==
    /\ o \in DOMAIN orderToTransaction'
    /\ orderToTransaction'[o] \in DOMAIN transactions'
    /\ transactions'[orderToTransaction'[o]].order_id = o
    /\ \/ orderToTransaction'[o] = orderToTransaction[o]
       \/ /\ orderToTransaction'[o] \in Created
          /\ transactions'[orderToTransaction'[o]].created_at >= Indexed(o).created_at

\* C23: an order id with an entry in the order index keeps an entry after
\* every initiateTransaction and processCallback (the entry is only re-pointed
\* to a newer transaction); only clearTransactions removes entries, and it
\* empties both the transaction map and the order index.
C23_IndexEntriesKept ==
    [][\A o \in OrderIds :
          IsIndexed(o) => (C23_EntryKept(o) \/ LedgerCleared)]_vars

\* ORD1 has been re-pointed: the index holds its second transaction while
\* the first, terminal, is still stored
C23_Witness ==
    /\ IsIndexed("ORD1")
    /\ \E id \in DOMAIN transactions :
          /\ id # orderToTransaction["ORD1"]
          /\ transactions[id].order_id = "ORD1"
          /\ transactions[id].status \in Terminal
          /\ Indexed("ORD1").status = PENDING

(* ------------------------------- C24 ---------------------------------- *)

\* the fields of a stored transaction that initiateTransaction fixes
C24_FixedFields(id) ==
    /\ transactions'[id].id = transactions[id].id
    /\ transactions'[id].order_id = transactions[id].order_id
    /\ transactions'[id].amount = transactions[id].amount
    /\ transactions'[id].currency = transactions[id].currency
    /\ transactions'[id].gateway = transactions[id].gateway
    /\ transactions'[id].gateway_selection_reason = transactions[id].gateway_selection_reason
    /\ transactions'[id].payment_instrument = transactions[id].payment_instrument
    /\ transactions'[id].created_at = transactions[id].created_at

\* a change of a stored transaction is the transition out of PENDING, with
\* updated_at and, for a failure only, the reason
C24_OnlyTransition(id) ==
    transactions'[id] # transactions[id]
       => /\ transactions[id].status = PENDING
          /\ transactions'[id].status \in Terminal
          /\ transactions'[id].updated_at = now
          /\ transactions'[id].failure_reason # transactions[id].failure_reason
                => transactions'[id].status = FAILURE

\* C24: the id, order id, amount, gateway, selection rationale and creation
\* time of a stored transaction never change; the only change in its life is
\* one transition of status from PENDING to SUCCESS or FAILURE (with
\* updated_at and, on failure, the reason), made by one processCallback.
C24_FrameOfTransaction ==
    [][\A id \in (DOMAIN transactions) \cap (DOMAIN transactions') :
          C24_FixedFields(id) /\ C24_OnlyTransition(id)]_vars

\* a transaction of 499 created at 0 and failed at 30 with a reason
C24_Witness ==
    \E id \in DOMAIN transactions :
       /\ transactions[id].amount = 499
       /\ transactions[id].status = FAILURE
       /\ transactions[id].failure_reason = "Customer Cancelled"
       /\ transactions[id].created_at = 0
       /\ transactions[id].updated_at > transactions[id].created_at

(* ------------------------------- C25 ---------------------------------- *)

\* the last four digits of a card number of the request
LastFour(card_number) == [i \in 1 .. 4 |-> card_number[Len(card_number) - 4 + i]]

\* the record holds no cvv, and a card number only as four asterisks
\* followed by four characters
C25_Sanitized(txn) ==
    /\ "cvv" \notin DOMAIN txn.payment_instrument
    /\ "card_number" \in DOMAIN txn.payment_instrument
          => /\ Len(txn.payment_instrument.card_number) = 8
             /\ \A i \in 1 .. 4 : txn.payment_instrument.card_number[i] = "*"

\* what getTransaction, getTransactionByOrderId and getAllTransactions return
C25_ReadsSanitized ==
    /\ \A id \in DOMAIN transactions : C25_Sanitized(getTransaction(transactions, id))
    /\ \A o \in DOMAIN orderToTransaction : C25_Sanitized(getTransactionByOrderId(o))
    /\ LET all == getAllTransactions(transactions)
       IN  \A i \in DOMAIN all : C25_Sanitized(all[i])

\* what initiateTransaction returns for the request dto
C25_IntakeSanitized ==
    \A id \in Created, k \in {0, RandomResolution - 1} :
       \A dto \in IntakeDtos(transactions'[id].order_id) :
          Initiate(dto, k)
             => LET returned == transactions'[nextId']
                    given == dto.payment_instrument
                    kept == returned.payment_instrument
                IN  /\ C25_Sanitized(returned)
                    /\ DOMAIN kept = (DOMAIN given) \ {"cvv"}
                    /\ "card_number" \in DOMAIN given
                          => /\ kept.card_number = MaskPrefix \o LastFour(given.card_number)
                             /\ kept.card_number # given.card_number

\* C25: no stored or returned transaction contains a CVV or an unmasked card
\* number: for every initiateTransaction whose request carries a card number,
\* the record returned by it, by getTransaction, by getTransactionByOrderId
\* and by getAllTransactions has the card number replaced by "****" followed
\* by its last 4 digits, and has no cvv field even if the request had one.
C25_NoCardDataKept ==
    /\ []C25_ReadsSanitized
    /\ [][C25_IntakeSanitized]_vars

\* a 19-digit card sent with a cvv is stored as ****9876, and a wallet
\* request sent with a cvv is stored too
C25_Witness ==
    /\ \E id \in DOMAIN transactions :
          /\ "card_number" \in DOMAIN transactions[id].payment_instrument
          /\ transactions[id].payment_instrument.card_number
                = << "*", "*", "*", "*", "9", "8", "7", "6" >>
    /\ \E id \in DOMAIN transactions : transactions[id].payment_instrument.type = "wallet"

(* ------------------------------- C26 ---------------------------------- *)

RECURSIVE SumTotals(_, _)
\* the sum of the totals of the byGateway entries of the given gateways
SumTotals(byGateway, gateways) ==
    IF gateways = {} THEN 0
    ELSE LET g == CHOOSE x \in gateways : TRUE
         IN  byGateway[g].total + SumTotals(byGateway, gateways \ {g})

\* C27: getStats() has total = pending + success + failure = the number of
\* stored transactions (superseded terminal ones of a reused order id
\* included), the per-gateway totals sum to total, and the success and
\* failure counts of each gateway are the numbers of SUCCESS and FAILURE
\* transactions assigned to it.
C27_StatsConsistent ==
    LET stats == getStats(transactions)
    IN  /\ stats.total = stats.pending + stats.success + stats.failure
        /\ stats.total = Cardinality(DOMAIN transactions)
        /\ SumTotals(stats.byGateway, DOMAIN stats.byGateway) = stats.total
        /\ \A g \in GatewayNames :
              IF g \in DOMAIN stats.byGateway
              THEN /\ stats.byGateway[g].success = CountTransactions(g, SUCCESS)
                   /\ stats.byGateway[g].failure = CountTransactions(g, FAILURE)
              ELSE \A id \in DOMAIN transactions : transactions[id].gateway # g

\* ORD1 reused after a failure: the superseded transaction and the PENDING
\* one are both counted
C27_Witness ==
    LET stats == getStats(transactions)
    IN  /\ stats.total = 2
        /\ stats.failure = 1
        /\ stats.pending = 1
        /\ \A id \in DOMAIN transactions : transactions[id].order_id = "ORD1"

(* ------------------------------- C28 ---------------------------------- *)

\* the configured weight of a gateway
WeightOf(g) == (CHOOSE c \in { GATEWAY_CONFIG[i] : i \in DOMAIN GATEWAY_CONFIG } : c.name = g).weight

\* the percentage, in tenths, is weight / total * 100 to the nearest tenth,
\* and is that quotient when it has at most one decimal
C28_ShareOf(probability, weight, total) ==
    /\ 2 * (probability * total - weight * 1000) <= total
    /\ 2 * (weight * 1000 - probability * total) <= total
    /\ (weight * 1000) % total = 0 => probability * total = weight * 1000

\* the rationale stored by a step that creates a transaction, against the
\* healthy set the step selected from
C28_RationaleOf(id) ==
    LET rationale == transactions'[id].gateway_selection_reason
        unhealthy == GatewayNames \ HealthyNames
    IN  /\ rationale.selected = transactions'[id].gateway
        /\ rationale.selected \in HealthyNames
        /\ C28_ShareOf(rationale.probability, WeightOf(rationale.selected),
                       SumWeights(HealthyConfigs))
        /\ { rationale.excluded[i] : i \in DOMAIN rationale.excluded } = unhealthy
        /\ Len(rationale.excluded) = Cardinality(unhealthy)

\* C28: the rationale of selectGateway reports the weight of the selected
\* gateway divided by the sum of the weights of the currently healthy
\* gateways (with razorpay excluded, 30 and 20 become 60% and 40%), and lists
\* excluded gateways exactly when some configured gateway is not in the
\* healthy set, naming exactly those.
C28_Rationale == [][\A id \in Created : C28_RationaleOf(id)]_vars

\* with razorpay excluded, payu was selected at 60.0% and cashfree at 40.0%
C28_Witness ==
    /\ \E id \in DOMAIN transactions :
          transactions[id].gateway_selection_reason
             = [selected |-> "payu", probability |-> 600, excluded |-> << "razorpay" >>]
    /\ \E id \in DOMAIN transactions :
          transactions[id].gateway_selection_reason
             = [selected |-> "cashfree", probability |-> 400, excluded |-> << "razorpay" >>]

(* ------------------------------- C29 ---------------------------------- *)

\* a transaction that leaves PENDING for SUCCESS has no failure reason
C29_SuccessStoresNoReason ==
    \A id \in Transitioned :
       transactions'[id].status = SUCCESS => transactions'[id].failure_reason = Undefined

\* C29: a transaction carries a failure reason only if its status is FAILURE;
\* a reason passed to a processCallback that reports success is not stored.
C29_ReasonOnlyOnFailure ==
    /\ [](\A id \in DOMAIN transactions :
             transactions[id].failure_reason # Undefined
                => transactions[id].status = FAILURE)
    /\ [][C29_SuccessStoresNoReason]_vars

\* ORD1 failed with a reason while ORD2 succeeded and holds none
C29_Witness ==
    /\ IsIndexed("ORD1") /\ IsIndexed("ORD2")
    /\ Indexed("ORD1").status = FAILURE
    /\ Indexed("ORD1").failure_reason = "Customer Cancelled"
    /\ Indexed("ORD2").status = SUCCESS
    /\ Indexed("ORD2").failure_reason = Undefined

(* ------------------------------- C30 ---------------------------------- *)

\* Concurrently issued calls run one after the other in some order: neither
\* initiateTransaction nor processCallback awaits anything and
\* recordTransaction is synchronous, so each runs to completion before the
\* next starts; every order of the issued calls is a behaviour.

\* once initiateTransaction has succeeded for an order, a second call for
\* that order is refused
C30_SecondCreateRefused ==
    \A id \in Created :
       InitiateCheck(transactions', orderToTransaction', disabledGateways',
                     transactions'[id].order_id, now') = "DuplicatePendingOrder"

\* once processCallback has succeeded for an order, a second call for that
\* order is refused whatever it reports, and the one outcome is recorded
C30_SecondCompleteRefused ==
    \A id \in Transitioned :
       /\ \A g \in GatewayInputs :
             CallbackCheck(transactions', orderToTransaction',
                           transactions'[id].order_id, g) # "ok"
       /\ AppendsOnly(transactions'[id].gateway,
                      [timestamp |-> now, success |-> transactions'[id].status = SUCCESS])

\* a step that changes a history appends one record and drops none
C30_NoRecordLost ==
    gatewayTransactions' # gatewayTransactions
       => \E g \in GatewayNames, ok \in BOOLEAN :
             AppendsOnly(g, [timestamp |-> now, success |-> ok])

\* the outcome of a recordTransaction call is in the history after it
C30_RecordAppears ==
    \A g \in RecordInputs :
       Record(g, FALSE)
          => LET history == gatewayTransactions'[g]
             IN  /\ Len(history) = Len(GetOrEmpty(gatewayTransactions, g)) + 1
                 /\ history[Len(history)] = [timestamp |-> now, success |-> FALSE]

\* C30: under any interleaving of concurrently issued initiateTransaction,
\* processCallback and recordTransaction calls no update is lost and the
\* result is that of a serial order: two initiateTransaction calls for one
\* order id never both succeed, two processCallback calls for one order id
\* never both succeed (exactly one outcome is recorded), and the outcome of
\* every recordTransaction call appears in the history of the gateway.
C30_SerialOutcome ==
    [][/\ C30_SecondCreateRefused
       /\ C30_SecondCompleteRefused
       /\ C30_NoRecordLost
       /\ C30_RecordAppears]_vars

\* the order was created, completed on razorpay and created again while
\* failures were recorded for razorpay directly: its history holds them all
C30_Witness ==
    /\ Cardinality(DOMAIN transactions) = 2
    /\ \E id \in DOMAIN transactions :
          transactions[id].status \in Terminal /\ transactions[id].gateway = "razorpay"
    /\ IsIndexed("ORD1") /\ Indexed("ORD1").status = PENDING
    /\ Len(GetOrEmpty(gatewayTransactions, "razorpay")) >= 3

(* ------------------------------- C31 ---------------------------------- *)

\* C31: the evaluation runs only when a failure is recorded:
\* recordTransaction(g, true) appends one outcome to the history of g and
\* leaves every disable-until as it was, that of g included, even if the
\* windowed success rate of g is below the threshold with at least the
\* minimum sample.
C31_SuccessNeverTrips ==
    [][\A g \in RecordInputs :
          Record(g, TRUE)
             => /\ AppendsOnly(g, [timestamp |-> now, success |-> TRUE])
                /\ disabledGateways' = disabledGateways]_vars

\* four failures and then a success recorded for razorpay at the same
\* instant: five outcomes at a rate of 0.2, and no disable-until
C31_Witness ==
    LET h == GetOrEmpty(gatewayTransactions, "razorpay")
        stats == getGatewayStats(gatewayTransactions, "razorpay", now)
    IN  /\ Len(h) = MIN_REQUESTS_FOR_HEALTH_CHECK
        /\ h[Len(h)].success
        /\ h[Len(h)].timestamp = now
        /\ stats.totalRequests = MIN_REQUESTS_FOR_HEALTH_CHECK
        /\ stats.successCount = 1
        /\ BelowThreshold(stats)
        /\ disabledGateways = EmptyMap

(* ------------------------------- C32 ---------------------------------- *)

\* C32: processCallback applies its checks in the order unknown order id
\* (TransactionNotFound), reported gateway other than the assigned one
\* (GatewayMismatch), status not PENDING (AlreadyProcessed): a callback naming
\* the wrong gateway raises GatewayMismatch whether the transaction is
\* PENDING or terminal, and a failing call raises exactly one kind of error.
C32_CheckOrder ==
    \A o \in OrderIds, g \in GatewayInputs :
       LET raised == CallbackCheck(transactions, orderToTransaction, o, g)
       IN  /\ raised \in {"TransactionNotFound", "GatewayMismatch", "AlreadyProcessed", "ok"}
           /\ raised = "TransactionNotFound" <=> ~IsIndexed(o)
           /\ raised = "GatewayMismatch" <=> (IsIndexed(o) /\ Indexed(o).gateway # g)
           /\ raised = "AlreadyProcessed"
                 <=> (/\ IsIndexed(o)
                      /\ Indexed(o).gateway = g
                      /\ Indexed(o).status \in Terminal)

\* ORD1 is terminal and ORD2 has no transaction: a callback for ORD1 naming
\* another gateway is a mismatch, one for ORD2 finds nothing
C32_Witness ==
    /\ IsIndexed("ORD1") /\ Indexed("ORD1").status \in Terminal
    /\ \E g \in GatewayNames \ {Indexed("ORD1").gateway} :
          CallbackCheck(transactions, orderToTransaction, "ORD1", g) = "GatewayMismatch"
    /\ ~IsIndexed("ORD2")
    /\ CallbackCheck(transactions, orderToTransaction, "ORD2", "stripe") = "TransactionNotFound"

(* ------------------------------- C33 ---------------------------------- *)

\* the histories cleanupOldRecords would leave now
Pruned == cleanupOldRecords(gatewayTransactions, now)

\* the records pruned from the history of g are its oldest, each older than
\* twice the health window
C33_OnlyOldPruned(g) ==
    LET before == gatewayTransactions[g]
        dropped == Len(before) - Len(Pruned[g])
    IN  /\ dropped >= 0
        /\ Pruned[g] = SubSeq(before, dropped + 1, Len(before))
        /\ \A i \in 1 .. dropped :
              before[i].timestamp < now - 2 * HEALTH_CHECK_WINDOW_MINUTES

\* now and at the later instant t, the health reported for g and the
\* disable-until left by recording one more outcome are the same with the
\* pruned histories as with the full ones
C33_SameLater(g, t) ==
    /\ getGatewayHealth(Pruned, disabledGateways, g, t)
          = getGatewayHealth(gatewayTransactions, disabledGateways, g, t)
    /\ \A ok \in BOOLEAN :
          recordTransaction(Pruned, disabledGateways, g, ok, t).d
             = recordTransaction(gatewayTransactions, disabledGateways, g, ok, t).d

\* C33: cleanupOldRecords removes only outcomes older than twice the health
\* window: the health reported for every gateway, the disable-until
\* timestamps and the result of any later evaluation are the same whether or
\* not it has run.
C33_PruningUnobservable ==
    /\ [](\A g \in GatewayNames :
             /\ C33_OnlyOldPruned(g)
             /\ \A step \in {0} \cup ClockSteps \cup LoopClockSteps :
                   C33_SameLater(g, now + step))
    /\ [][CleanupOldRecords
             => /\ disabledGateways' = disabledGateways
                /\ \A g \in GatewayNames :
                      getGatewayHealth(gatewayTransactions', disabledGateways', g, now')
                         = getGatewayHealth(gatewayTransactions, disabledGateways, g, now)]_vars

\* razorpay holds an outcome older than twice the window, which pruning
\* removes, beside failures inside the window
C33_Witness ==
    LET h == gatewayTransactions["razorpay"]
    IN  /\ Len(h) >= 2
        /\ h[1].timestamp < now - 2 * HEALTH_CHECK_WINDOW_MINUTES
        /\ Len(Pruned["razorpay"]) < Len(h)
        /\ getGatewayStats(gatewayTransactions, "razorpay", now).failureCount >= 1

(* ------------------------------- C34 ---------------------------------- *)

\* the stored transactions of the order
TransactionsOf(o) == { id \in DOMAIN transactions : transactions[id].order_id = o }

\* C34: every order-index entry orderId -> id points to a stored transaction
\* whose order id is orderId, the most recently created one of that order id
\* (ids are given in the order of creation); the order id of every stored
\* transaction has an index entry.
C34_IndexExact ==
    /\ \A o \in DOMAIN orderToTransaction :
          /\ orderToTransaction[o] \in TransactionsOf(o)
          /\ \A id \in TransactionsOf(o) :
                /\ id <= orderToTransaction[o]
                /\ transactions[id].created_at <= Indexed(o).created_at
    /\ \A id \in DOMAIN transactions : transactions[id].order_id \in DOMAIN orderToTransaction

\* ORD2 was created, completed and created again: its entry names the second
\* of its two transactions
C34_Witness ==
    /\ Cardinality(TransactionsOf("ORD2")) = 2
    /\ "ORD2" \in DOMAIN orderToTransaction
    /\ \A id \in TransactionsOf("ORD2") : id <= orderToTransaction["ORD2"]
    /\ Indexed("ORD2").status = PENDING

(* ------------------------------- C35 ---------------------------------- *)

\* a transaction that leaves PENDING has its outcome recorded for its gateway
C35_OutcomeRecorded ==
    \A id \in Transitioned :
       /\ transactions'[id].gateway = transactions[id].gateway
       /\ AppendsOnly(transactions[id].gateway,
                      [timestamp |-> now, success |-> transactions'[id].status = SUCCESS])

\* C35: a PENDING transaction can always be completed by a callback naming
\* its assigned gateway, whatever the health of that gateway: processCallback
\* succeeds and records the outcome even if the gateway has been disabled, by
\* hand or automatically, since the transaction was created.
C35_CompletableWhateverHealth ==
    /\ [](\A o \in OrderIds :
             (IsIndexed(o) /\ Indexed(o).status = PENDING)
                => CallbackCheck(transactions, orderToTransaction, o, Indexed(o).gateway) = "ok")
    /\ [][C35_OutcomeRecorded]_vars

\* ORD1 is PENDING on razorpay, tripped by five failures since, and ORD2 is
\* PENDING on payu, disabled by hand since
C35_Witness ==
    /\ IsIndexed("ORD1") /\ Indexed("ORD1").status = PENDING
    /\ Indexed("ORD1").gateway = "razorpay"
    /\ BreakerOpen("razorpay")
    /\ disabledGateways["razorpay"] = now + UNHEALTHY_COOLDOWN_MINUTES
    /\ IsIndexed("ORD2") /\ Indexed("ORD2").status = PENDING
    /\ Indexed("ORD2").gateway = "payu"
    /\ BreakerOpen("payu")
    /\ disabledGateways["payu"] = now + HEALTH_CHECK_WINDOW_MINUTES

(* ------------------------------- C36 ---------------------------------- *)

\* the stored transactions the order index no longer points to
Superseded ==
    { id \in DOMAIN transactions : orderToTransaction[transactions[id].order_id] # id }

\* a superseded transaction is kept as it is, and a transaction that
\* changes is the one indexed under its order id
C36_OnlyIndexedTouched ==
    /\ \A id \in Superseded :
          id \in DOMAIN transactions' /\ transactions'[id] = transactions[id]
    /\ \A id \in (DOMAIN transactions) \cap (DOMAIN transactions') :
          transactions'[id] # transactions[id]
             => orderToTransaction[transactions[id].order_id] = id

\* a superseded transaction is terminal, returned by getTransaction and
\* getAllTransactions and not by getTransactionByOrderId
C36_StillRetrievable ==
    \A id \in Superseded :
       LET all == getAllTransactions(transactions)
       IN  /\ transactions[id].status \in Terminal
           /\ getTransaction(transactions, id) = transactions[id]
           /\ \E i \in DOMAIN all : all[i] = transactions[id]
           /\ getTransactionByOrderId(transactions[id].order_id) # transactions[id]
           /\ getTransactionByOrderId(transactions[id].order_id).id # id

\* C36: when an order id has been reused after a terminal transaction,
\* processCallback reads and modifies only the transaction indexed under the
\* order id; the earlier terminal transaction is never modified by a later
\* initiateTransaction or processCallback, stays retrievable through
\* getTransaction and getAllTransactions, and is no longer returned by
\* getTransactionByOrderId.
C36_SupersededUntouched ==
    /\ []C36_StillRetrievable
    /\ [][C36_OnlyIndexedTouched]_vars

\* ORD1 failed at 0 and was created again and completed at 30: the first
\* transaction still carries its own times
C36_Witness ==
    /\ Superseded # {}
    /\ \A id \in Superseded :
          transactions[id].status = FAILURE /\ transactions[id].updated_at = 0
    /\ IsIndexed("ORD1")
    /\ Indexed("ORD1").status = SUCCESS
    /\ Indexed("ORD1").updated_at = UNHEALTHY_COOLDOWN_MINUTES

(* ------------------------------- C37 ---------------------------------- *)

\* C37: recording a failure for a gateway whose disable-until is in the
\* future never moves that disable-until to an earlier time: a longer manual
\* disable is not shortened by an automatic trip.
C37_NeverShortened ==
    [][\A g \in RecordInputs :
          (/\ g \in DOMAIN disabledGateways
           /\ disabledGateways[g] > now
           /\ Recorded(g, FALSE))
             => /\ g \in DOMAIN disabledGateways'
                /\ disabledGateways'[g] >= disabledGateways[g]]_vars

(* ------------------------------- C38 ---------------------------------- *)

\* C38: every result of getGatewayHealth is coherent: isHealthy is false
\* exactly when the disabledUntil of the same result is not null; the first
\* call after the disable window has elapsed reports isHealthy true together
\* with disabledUntil null.
C38_HealthCoherent ==
    \A g \in GatewayNames :
       LET health == getGatewayHealth(gatewayTransactions, disabledGateways, g, now)
       IN  ~health.isHealthy <=> health.disabledUntil # << >>

(* ------------------------------- C39 ---------------------------------- *)

\* weights a configuration may give the three gateways, zero among them
C39_Weights == [DOMAIN GATEWAY_CONFIG -> {0, 30, 70}]

\* the healthy list selectGateway works on in the current state when the
\* configuration has these weights
C39_Healthy(w) ==
    SelectSeq([i \in DOMAIN GATEWAY_CONFIG |-> [GATEWAY_CONFIG[i] EXCEPT !.weight = w[i]]],
              LAMBDA c : c.name \in HealthyNames)

====
